---- MODULE Spec2Model ----
(***************************************************************************)
(* Model of the NextStep AI front end: the Job Feed Store (jobsStore), the *)
(* DiscoverPage / SavedJobsPage handlers that drive it, the swipe card's   *)
(* drag-release decision, the Session Store (authStore) with the           *)
(* application start-up, and the axios HTTP gateway (api client).          *)
(*                                                                         *)
(* Each component has its own specification over the module's variables:   *)
(*   JobsSpec   - Job Feed Store + DiscoverPage / SavedJobsPage            *)
(*   SavedSpec  - the same actions, the /saved-jobs/ lists in full         *)
(*   SkipSpec   - skipJob() repeated on a freshly fetched feed             *)
(*   SwipeSpec  - SwipeCard.handleDragEnd                                  *)
(*   AuthSpec   - Session Store + login / signup submits + AppContent      *)
(*                start-up + route guards                                  *)
(*   GateSpec   - request / response interceptors of the api client        *)
(*   GateLiveSpec - the same, every call that is out answered in the end   *)
(*   SessionGateSpec - Session Store and api client in one page            *)
(*   AnalyzerSpec - ResumeAnalyzerPage                                     *)
(* JavaScript runs handlers to completion on one thread; an action is one  *)
(* handler, or the continuation of an async function after an await.       *)
(***************************************************************************)
EXTENDS Bags, FiniteSets, Integers, Sequences, TLC

VARIABLES
    \* ---- Job Feed Store (jobsStore) ----
    jobs,            \* ordered feed, a sequence of job records
    currentIndex,    \* cursor into jobs (0-based, as in the source)
    savedJobs,       \* sequence
    appliedJobs,     \* sequence
    jobsIsLoading,   \* jobsStore.isLoading
    jobsError,       \* jobsStore.error
    inflight,        \* bag of jobs-store server calls awaiting their response
    issued,          \* jobs-store server calls made so far
    \* ---- DiscoverPage / SavedJobsPage ----
    page,            \* which page component is mounted
    showApplyModal,  \* DiscoverPage local state
    selectedJob,     \* DiscoverPage local state
    event,           \* the handler / continuation that ran last, with its input and result
    skipRun,         \* skipJob calls made since the cursor was put at 0
    \* ---- SwipeCard ----
    offset,          \* info.offset of the drag being released
    swiped,          \* the onSwipe calls the release has made
    \* ---- Session Store (authStore) ----
    user,
    profile,
    isAuthenticated,
    authIsLoading,   \* authStore.isLoading
    authError,       \* authStore.error
    authCalls,       \* bag of async authStore functions waiting at an await
    path,            \* the route being shown
    wizardError,     \* SignupWizard's local error state
    \* ---- localStorage ----
    access_token,
    refresh_token,
    persisted,       \* 'auth-storage': the isAuthenticated flag written by persist
    \* ---- api client ----
    requests,        \* the original requests sent through the api instance
    forcedLogin,     \* window.location.href = '/login' has been assigned
    \* ---- ResumeAnalyzerPage ----
    inputMode,       \* 'upload' or 'text'
    resumeText,
    resumeFile,
    selectedJobId,
    isAnalyzing,
    analysis,
    analyzerError,   \* the page's error state
    analyzeCall      \* the body of the POST /ai/analyze-resume/ awaiting its response

jobsVars == <<jobs, currentIndex, savedJobs, appliedJobs, jobsIsLoading, jobsError,
              inflight, issued, page, showApplyModal, selectedJob>>
swipeVars == <<offset, swiped>>

authVars == <<user, profile, isAuthenticated, authIsLoading, authError, authCalls, path,
              persisted>>
tokenVars == <<access_token, refresh_token>>
wizardVars == <<wizardError>>
gateVars == <<requests, forcedLogin>>
analyzerVars == <<inputMode, resumeText, resumeFile, selectedJobId, isAnalyzing, analysis,
                  analyzerError, analyzeCall>>

vars == <<jobsVars, event, skipRun, swipeVars, authVars, tokenVars, gateVars, analyzerVars, wizardVars>>

(***************************************************************************)
(* Bounds                                                                  *)
(***************************************************************************)
MaxFeed == 2        \* longest feed the server returns; job ids are 1..MaxFeed
MaxList == 3        \* longest /saved-jobs/ list the server returns
MaxCalls == 4       \* jobs-store server calls made in one behaviour
MaxShortList == 1   \* longest /saved-jobs/ list where the feed is explored in full
MaxSkipFeed == 9    \* longest feed that is skipped through
MaxOffset == 102    \* largest drag offset, per axis, in pixels
MaxAuthCalls == 2   \* async authStore functions in flight at once
MaxToken == 2       \* distinct credentials the server issues
MaxReq == 2         \* original requests sent through the api instance
MaxLiveReq == 1     \* original requests followed to their end under fairness

(***************************************************************************)
(* JavaScript values                                                       *)
(***************************************************************************)
Null == [tag |-> "null"]
Undefined == [tag |-> "undefined"]

\* !!v for the values that occur in a job slot: objects are truthy.
Truthy(v) == v # Null /\ v # Undefined

\* arr[i] on a JavaScript array: undefined outside 0 .. length-1.
ArrayGet(arr, i) == IF i >= 0 /\ i < Len(arr) THEN arr[i + 1] ELSE Undefined

\* Array.prototype.filter
RECURSIVE Filter(_, _)
Filter(arr, st) ==
    IF arr = <<>> THEN <<>>
    ELSE IF Head(arr).status = st THEN <<Head(arr)>> \o Filter(Tail(arr), st)
    ELSE Filter(Tail(arr), st)

JobIds == 1 .. MaxFeed
\* A job of the feed; it carries no status field of its own.
Job(i) == [tag |-> "job", id |-> i, status |-> "none"]
\* An entry of the server's saved-jobs list.
Statuses == {"saved", "applied", "rejected"}
Entry(i, st) == [tag |-> "job", id |-> i, status |-> st]

RECURSIVE SeqsUpTo(_, _)
SeqsUpTo(S, n) ==
    IF n = 0 THEN {<<>>}
    ELSE LET shorter == SeqsUpTo(S, n - 1)
         IN shorter \cup {Append(s, x) : s \in {t \in shorter : Len(t) = n - 1}, x \in S}

\* Feeds the server may answer with: every length up to n, in the server's
\* ranking order or in the reverse order.
Ranked(n) == [i \in 1 .. n |-> Job(i)]
Reversed(n) == [i \in 1 .. n |-> Job(n + 1 - i)]
FeedsUpTo(n) == {Ranked(k) : k \in 0 .. n} \cup {Reversed(k) : k \in 0 .. n}
Feeds == FeedsUpTo(MaxFeed)
\* Lists GET /saved-jobs/ may answer with: any statuses, the entries told
\* apart by their position in the server's list.
ListsUpTo(n) == {[i \in 1 .. Len(sts) |-> Entry(i, sts[i])] : sts \in SeqsUpTo(Statuses, n)}
ServerLists == ListsUpTo(MaxList)

Call(kind, job, ui) == [call |-> kind, job |-> job, ui |-> ui]
Send(c) == inflight (+) SetToBag({c})
Settle(c) == inflight (-) SetToBag({c})
CanSend == issued < MaxCalls

\* The component that issued a call is unmounted: its setState calls are dropped.
Orphan(b) ==
    LET live == {c \in BagToSet(b) : c.ui}
        RECURSIVE Move(_, _)
        Move(S, acc) ==
            IF S = {} THEN acc
            ELSE LET c == CHOOSE d \in S : TRUE
                     n == CopiesIn(c, b)
                     dead == [c EXCEPT !.ui = FALSE]
                     moved == [e \in {dead} |-> n]
                 IN Move(S \ {c}, (acc (-) [e \in {c} |-> n]) (+) moved)
    IN Move(live, b)

\* ret: "called" for an async function up to its await, then what it resolved
\* with; "none" for a handler that returns nothing.
Ev(op, arg, ret) == [op |-> op, arg |-> arg, ret |-> ret]

\* The input of the continuation of saveJob(job) / applyToJob(job): the job
\* and whether POST /saved-jobs/ was answered with success.
Answered(job, ok) == [job |-> job, ok |-> ok]

(***************************************************************************)
(* Job Feed Store                                                          *)
(***************************************************************************)
\* getCurrentJob reading the slot before the cursor
getCurrentJob_Previous ==
    LET v == ArrayGet(jobs, currentIndex - 1)
    IN IF Truthy(v) THEN v ELSE Null

getCurrentJob ==
    LET v == ArrayGet(jobs, currentIndex)
    IN IF Truthy(v) THEN v ELSE Null

hasMoreJobs == currentIndex < Len(jobs)

\* skipJob with the bound test off by one
skipJob_UpToLength(idx, feed) == IF idx < Len(feed) THEN idx + 1 ELSE idx

\* skipJob's new cursor
skipJob(idx, feed) == IF idx < Len(feed) - 1 THEN idx + 1 ELSE idx

\* The job-feed actions leave the other components alone.
JobsFrame == UNCHANGED <<skipRun, swipeVars, authVars, tokenVars, gateVars, analyzerVars, wizardVars>>

\* No token stored.
NoToken == 0

\* A request of the api client that has not been made yet.
\* No response has come in yet.
Unanswered == -1

\* got: the status of the last response to it (0: no response, a network
\* error); granted: response.data.access of the refresh made for it.
NewRequest ==
    [state |-> "new", retry |-> FALSE, hdr |-> NoToken, sends |-> 0, refreshes |-> 0,
     got |-> Unanswered, granted |-> NoToken]

\* The session store as created, nothing in localStorage, no request made.
InitSession ==
    /\ user = Null
    /\ profile = Null
    /\ isAuthenticated = FALSE
    /\ authIsLoading = FALSE
    /\ authError = Null
    /\ authCalls = EmptyBag
    /\ path = "/login"
    /\ wizardError = Null
    /\ access_token = NoToken
    /\ refresh_token = NoToken
    /\ persisted = FALSE
    /\ requests = [r \in 1 .. MaxReq |-> NewRequest]
    /\ forcedLogin = FALSE

\* ResumeAnalyzerPage's useState initial values
InitAnalyzer ==
    /\ inputMode = "upload"
    /\ resumeText = <<>>
    /\ resumeFile = Null
    /\ selectedJobId = ""
    /\ isAnalyzing = FALSE
    /\ analysis = Null
    /\ analyzerError = Null
    /\ analyzeCall = Null

InitStore ==
    /\ jobs = <<>>
    /\ currentIndex = 0
    /\ savedJobs = <<>>
    /\ appliedJobs = <<>>
    /\ jobsIsLoading = FALSE
    /\ jobsError = Null
    /\ inflight = EmptyBag
    /\ issued = 0
    /\ page = "none"
    /\ showApplyModal = FALSE
    /\ selectedJob = Null

InitJobs ==
    /\ InitStore
    /\ InitSession
    /\ InitAnalyzer
    /\ event = Ev("init", Null, "none")
    /\ skipRun = 0
    /\ offset = [x |-> 0, y |-> 0]
    /\ swiped = <<>>

\* fetchRecommended up to its await
fetchRecommended ==
    /\ jobsIsLoading' = TRUE
    /\ jobsError' = Null

\* DiscoverPage is mounted: fresh local state, useEffect calls fetchRecommended().
MountDiscover ==
    /\ page # "discover"
    /\ CanSend
    /\ page' = "discover"
    /\ showApplyModal' = FALSE
    /\ selectedJob' = Null
    /\ fetchRecommended
    /\ inflight' = Orphan(inflight) (+) SetToBag({Call("recommended", Null, FALSE)})
    /\ event' = Ev("fetchRecommended", Null, "called")
    /\ issued' = issued + 1
    /\ JobsFrame
    /\ UNCHANGED <<jobs, currentIndex, savedJobs, appliedJobs>>

\* SavedJobsPage is mounted (DiscoverPage unmounted): useEffect calls fetchSavedJobs().
MountSaved ==
    /\ page # "saved"
    /\ CanSend
    /\ page' = "saved"
    /\ showApplyModal' = FALSE
    /\ selectedJob' = Null
    /\ inflight' = Orphan(inflight) (+) SetToBag({Call("list", Null, FALSE)})
    /\ event' = Ev("fetchSavedJobs", Null, "called")
    /\ issued' = issued + 1
    /\ JobsFrame
    /\ UNCHANGED <<jobs, currentIndex, savedJobs, appliedJobs, jobsIsLoading, jobsError>>

\* GET /jobs/recommended/ answered
RecommendedOk(feed) ==
    /\ BagIn(Call("recommended", Null, FALSE), inflight)
    /\ inflight' = Settle(Call("recommended", Null, FALSE))
    /\ jobs' = feed
    /\ currentIndex' = 0
    /\ jobsIsLoading' = FALSE
    /\ event' = Ev("fetchRecommended", feed, "ok")
    /\ issued' = issued
    /\ JobsFrame
    /\ UNCHANGED <<savedJobs, appliedJobs, jobsError, page, showApplyModal, selectedJob>>

\* fetchRecommended's catch emptying the feed
RecommendedFail_ClearsFeed ==
    /\ BagIn(Call("recommended", Null, FALSE), inflight)
    /\ inflight' = Settle(Call("recommended", Null, FALSE))
    /\ jobs' = <<>>
    /\ currentIndex' = 0
    /\ jobsError' = [tag |-> "error"]
    /\ jobsIsLoading' = FALSE
    /\ event' = Ev("fetchRecommended", Null, "failed")
    /\ issued' = issued
    /\ JobsFrame
    /\ UNCHANGED <<savedJobs, appliedJobs, page, showApplyModal, selectedJob>>

\* GET /jobs/recommended/ failed: fetchRecommended's catch
RecommendedFail ==
    /\ BagIn(Call("recommended", Null, FALSE), inflight)
    /\ inflight' = Settle(Call("recommended", Null, FALSE))
    /\ jobsError' = [tag |-> "error"]
    /\ jobsIsLoading' = FALSE
    /\ event' = Ev("fetchRecommended", Null, "failed")
    /\ issued' = issued
    /\ JobsFrame
    /\ UNCHANGED <<jobs, currentIndex, savedJobs, appliedJobs, page, showApplyModal,
                   selectedJob>>

\* saveJob / applyToJob up to their await: POST /saved-jobs/ {job: job.id, status}
saveJob(job) == inflight' = Send(Call("save", job, FALSE))
applyToJob(job) == inflight' = Send(Call("apply", job, TRUE))

\* DiscoverPage.currentJob
currentJob == ArrayGet(jobs, currentIndex)

\* The card stack and the action buttons are rendered only when the store is
\* not loading, and the apply modal's overlay covers them while it is shown.
CanSwipe ==
    /\ page = "discover"
    /\ ~jobsIsLoading
    /\ ~(showApplyModal /\ Truthy(selectedJob))

\* DiscoverPage.handleSwipe(action), from a button or from a drag release
HandleSwipeSkip ==
    /\ CanSwipe
    /\ Truthy(currentJob)
    /\ currentIndex' = skipJob(currentIndex, jobs)
    /\ event' = Ev("skipJob", currentJob, "none")
    /\ issued' = issued
    /\ JobsFrame
    /\ UNCHANGED <<jobs, savedJobs, appliedJobs, jobsIsLoading, jobsError, inflight,
                   page, showApplyModal, selectedJob>>

HandleSwipeSave ==
    /\ CanSwipe
    /\ Truthy(currentJob)
    /\ CanSend
    /\ saveJob(currentJob)
    /\ event' = Ev("saveJob", currentJob, "called")
    /\ issued' = issued + 1
    /\ JobsFrame
    /\ UNCHANGED <<jobs, currentIndex, savedJobs, appliedJobs, jobsIsLoading, jobsError,
                   page, showApplyModal, selectedJob>>

\* handleSwipe('apply') calling applyToJob at once
HandleSwipeApply_Applies ==
    /\ CanSwipe
    /\ Truthy(currentJob)
    /\ CanSend
    /\ selectedJob' = currentJob
    /\ showApplyModal' = TRUE
    /\ applyToJob(currentJob)
    /\ event' = Ev("handleSwipe", currentJob, "apply")
    /\ issued' = issued + 1
    /\ JobsFrame
    /\ UNCHANGED <<jobs, currentIndex, savedJobs, appliedJobs, jobsIsLoading, jobsError,
                   page>>

HandleSwipeApply ==
    /\ CanSwipe
    /\ Truthy(currentJob)
    /\ selectedJob' = currentJob
    /\ showApplyModal' = TRUE
    /\ event' = Ev("handleSwipe", currentJob, "apply")
    /\ issued' = issued
    /\ JobsFrame
    /\ UNCHANGED <<jobs, currentIndex, savedJobs, appliedJobs, jobsIsLoading, jobsError,
                   inflight, page>>

ModalShown == page = "discover" /\ showApplyModal /\ Truthy(selectedJob)

\* ApplyModal onClose (overlay, X, Later)
CloseModal ==
    /\ ModalShown
    /\ showApplyModal' = FALSE
    /\ event' = Ev("onClose", selectedJob, "none")
    /\ issued' = issued
    /\ JobsFrame
    /\ UNCHANGED <<jobs, currentIndex, savedJobs, appliedJobs, jobsIsLoading, jobsError,
                   inflight, page, selectedJob>>

\* DiscoverPage.handleApply up to its await ("Apply Now" clicked)
HandleApply ==
    /\ ModalShown
    /\ CanSend
    /\ applyToJob(selectedJob)
    /\ event' = Ev("applyToJob", selectedJob, "called")
    /\ issued' = issued + 1
    /\ JobsFrame
    /\ UNCHANGED <<jobs, currentIndex, savedJobs, appliedJobs, jobsIsLoading, jobsError,
                   page, showApplyModal, selectedJob>>

\* POST /saved-jobs/ {status: 'saved'} answered: the rest of saveJob
SaveOk(c) ==
    /\ c.call = "save"
    /\ BagIn(c, inflight)
    /\ inflight' = Settle(c)
    /\ savedJobs' = Append(savedJobs, c.job)
    /\ currentIndex' = currentIndex + 1
    /\ event' = Ev("saveJob", Answered(c.job, TRUE), "undefined")
    /\ issued' = issued
    /\ JobsFrame
    /\ UNCHANGED <<jobs, appliedJobs, jobsIsLoading, jobsError, page, showApplyModal,
                   selectedJob>>

\* saveJob appending in its catch as well
SaveFail_Appends(c) ==
    /\ c.call = "save"
    /\ BagIn(c, inflight)
    /\ inflight' = Settle(c)
    /\ savedJobs' = Append(savedJobs, c.job)
    /\ currentIndex' = currentIndex + 1
    /\ event' = Ev("saveJob", Answered(c.job, FALSE), "undefined")
    /\ issued' = issued
    /\ JobsFrame
    /\ UNCHANGED <<jobs, appliedJobs, jobsIsLoading, jobsError, page, showApplyModal,
                   selectedJob>>

\* POST /saved-jobs/ {status: 'saved'} failed: saveJob's catch
SaveFail(c) ==
    /\ c.call = "save"
    /\ BagIn(c, inflight)
    /\ inflight' = Settle(c)
    /\ event' = Ev("saveJob", Answered(c.job, FALSE), "undefined")
    /\ issued' = issued
    /\ JobsFrame
    /\ UNCHANGED <<jobs, currentIndex, savedJobs, appliedJobs, jobsIsLoading, jobsError,
                   page, showApplyModal, selectedJob>>

\* The rest of handleApply, run when applyToJob has resolved; a component that
\* was unmounted meanwhile drops the two setState calls.
AfterApply(c) ==
    IF c.ui
    THEN showApplyModal' = FALSE /\ selectedJob' = Null
    ELSE UNCHANGED <<showApplyModal, selectedJob>>

\* applyToJob appending without moving the cursor
ApplyOk_NoAdvance(c) ==
    /\ c.call = "apply"
    /\ BagIn(c, inflight)
    /\ inflight' = Settle(c)
    /\ appliedJobs' = Append(appliedJobs, c.job)
    /\ currentIndex' = currentIndex
    /\ AfterApply(c)
    /\ event' = Ev("applyToJob", Answered(c.job, TRUE), "true")
    /\ issued' = issued
    /\ JobsFrame
    /\ UNCHANGED <<jobs, savedJobs, jobsIsLoading, jobsError, page>>

\* POST /saved-jobs/ {status: 'applied'} answered: the rest of applyToJob
ApplyOk(c) ==
    /\ c.call = "apply"
    /\ BagIn(c, inflight)
    /\ inflight' = Settle(c)
    /\ appliedJobs' = Append(appliedJobs, c.job)
    /\ currentIndex' = currentIndex + 1
    /\ AfterApply(c)
    /\ event' = Ev("applyToJob", Answered(c.job, TRUE), "true")
    /\ issued' = issued
    /\ JobsFrame
    /\ UNCHANGED <<jobs, savedJobs, jobsIsLoading, jobsError, page>>

ApplyFail(c) ==
    /\ c.call = "apply"
    /\ BagIn(c, inflight)
    /\ inflight' = Settle(c)
    /\ AfterApply(c)
    /\ event' = Ev("applyToJob", Answered(c.job, FALSE), "false")
    /\ issued' = issued
    /\ JobsFrame
    /\ UNCHANGED <<jobs, currentIndex, savedJobs, appliedJobs, jobsIsLoading, jobsError,
                   page>>

\* fetchSavedJobs adding the server's entries to the local collections
fetchSavedJobsOk_Merge(data) ==
    /\ BagIn(Call("list", Null, FALSE), inflight)
    /\ inflight' = Settle(Call("list", Null, FALSE))
    /\ savedJobs' = savedJobs \o Filter(data, "saved")
    /\ appliedJobs' = appliedJobs \o Filter(data, "applied")
    /\ event' = Ev("fetchSavedJobs", data, "ok")
    /\ issued' = issued
    /\ JobsFrame
    /\ UNCHANGED <<jobs, currentIndex, jobsIsLoading, jobsError, page, showApplyModal,
                   selectedJob>>

\* GET /saved-jobs/ answered: the rest of fetchSavedJobs
fetchSavedJobsOk(data) ==
    /\ BagIn(Call("list", Null, FALSE), inflight)
    /\ inflight' = Settle(Call("list", Null, FALSE))
    /\ savedJobs' = Filter(data, "saved")
    /\ appliedJobs' = Filter(data, "applied")
    /\ event' = Ev("fetchSavedJobs", data, "ok")
    /\ issued' = issued
    /\ JobsFrame
    /\ UNCHANGED <<jobs, currentIndex, jobsIsLoading, jobsError, page, showApplyModal,
                   selectedJob>>

fetchSavedJobsFail ==
    /\ BagIn(Call("list", Null, FALSE), inflight)
    /\ inflight' = Settle(Call("list", Null, FALSE))
    /\ event' = Ev("fetchSavedJobs", Null, "failed")
    /\ issued' = issued
    /\ JobsFrame
    /\ UNCHANGED <<jobs, currentIndex, savedJobs, appliedJobs, jobsIsLoading, jobsError,
                   page, showApplyModal, selectedJob>>

\* useJobsStore.getState().getCurrentJob(), from any caller at any time
GetCurrentJobCall ==
    /\ event' = Ev("getCurrentJob", Null, getCurrentJob)
    /\ JobsFrame
    /\ UNCHANGED jobsVars

Calls == BagToSet(inflight)

JobsNext ==
    \/ MountDiscover
    \/ MountSaved
    \/ \E f \in Feeds : RecommendedOk(f)
    \/ RecommendedFail
    \/ HandleSwipeSkip
    \/ HandleSwipeSave
    \/ HandleSwipeApply
    \/ CloseModal
    \/ HandleApply
    \/ \E c \in Calls : SaveOk(c)
    \/ \E c \in Calls : SaveFail(c)
    \/ \E c \in Calls : ApplyOk(c)
    \/ \E c \in Calls : ApplyFail(c)
    \/ \E d \in ListsUpTo(MaxShortList) : fetchSavedJobsOk(d)
    \/ fetchSavedJobsFail
    \/ GetCurrentJobCall

JobsSpec == InitJobs /\ [][JobsNext]_vars

(***************************************************************************)
(* The saved / applied collections against the server's list: the same     *)
(* actions, the lists explored in full over a short feed.                  *)
(***************************************************************************)
\* The feeds of this specification: no job, or one job to save or apply to.
SavedFeeds == {<<>>, <<Job(1)>>}

SavedNext ==
    \/ MountDiscover
    \/ MountSaved
    \/ \E f \in SavedFeeds : RecommendedOk(f)
    \/ RecommendedFail
    \/ HandleSwipeSkip
    \/ HandleSwipeSave
    \/ HandleSwipeApply
    \/ CloseModal
    \/ HandleApply
    \/ \E c \in Calls : SaveOk(c)
    \/ \E c \in Calls : SaveFail(c)
    \/ \E c \in Calls : ApplyOk(c)
    \/ \E c \in Calls : ApplyFail(c)
    \/ \E d \in ServerLists : fetchSavedJobsOk(d)
    \/ fetchSavedJobsFail

SavedSpec == InitJobs /\ [][SavedNext]_vars

(***************************************************************************)
(* skipJob() called over and over on a freshly fetched feed                *)
(***************************************************************************)
\* The store right after fetchRecommended() has succeeded with some feed.
InitSkip ==
    /\ InitSession
    /\ InitAnalyzer
    /\ jobs \in FeedsUpTo(MaxSkipFeed)
    /\ currentIndex = 0
    /\ savedJobs = <<>>
    /\ appliedJobs = <<>>
    /\ jobsIsLoading = FALSE
    /\ jobsError = Null
    /\ inflight = EmptyBag
    /\ issued = 1
    /\ page = "discover"
    /\ showApplyModal = FALSE
    /\ selectedJob = Null
    /\ event = Ev("fetchRecommended", jobs, "ok")
    /\ skipRun = 0
    /\ offset = [x |-> 0, y |-> 0]
    /\ swiped = <<>>

\* useJobsStore.getState().skipJob()
SkipJobCall ==
    /\ skipRun <= Len(jobs)
    /\ currentIndex' = skipJob(currentIndex, jobs)
    /\ skipRun' = skipRun + 1
    /\ event' = Ev("skipJob", Null, "none")
    /\ issued' = issued
    /\ UNCHANGED <<jobs, savedJobs, appliedJobs, jobsIsLoading, jobsError, inflight,
                   page, showApplyModal, selectedJob, swipeVars, authVars, tokenVars,
                   gateVars, analyzerVars, wizardVars>>

SkipNext == SkipJobCall

SkipSpec == InitSkip /\ [][SkipNext]_vars

(***************************************************************************)
(* SwipeCard: the decision taken when a drag is released                   *)
(***************************************************************************)
threshold == 100

\* handleDragEnd with the upward swipe tested before the horizontal ones
handleDragEnd_VerticalFirst(x, y) ==
    IF y < -threshold THEN <<"save">>
    ELSE IF x > threshold THEN <<"apply">>
    ELSE IF x < -threshold THEN <<"skip">>
    ELSE <<>>

\* The onSwipe calls handleDragEnd makes for info.offset = (x, y), in order.
handleDragEnd(x, y) ==
    IF x > threshold THEN <<"apply">>
    ELSE IF x < -threshold THEN <<"skip">>
    ELSE IF y < -threshold THEN <<"save">>
    ELSE <<>>

Offsets == (-MaxOffset) .. MaxOffset

\* A drag is in progress and is about to be released at some offset.
InitDrag ==
    /\ InitStore
    /\ InitSession
    /\ InitAnalyzer
    /\ skipRun = 0
    /\ offset \in [x : Offsets, y : Offsets]
    /\ swiped = <<>>
    /\ event = Ev("drag", Null, "none")

\* onDragEnd
DragEnd ==
    /\ event.op = "drag"
    /\ swiped' = swiped \o handleDragEnd(offset.x, offset.y)
    /\ event' = Ev("handleDragEnd", Null, "none")
    /\ UNCHANGED <<offset, jobsVars, skipRun, authVars, tokenVars, gateVars, analyzerVars, wizardVars>>

SwipeNext == DragEnd

SwipeSpec == InitDrag /\ [][SwipeNext]_vars

(***************************************************************************)
(* Session Store, application start-up and route guards                    *)
(***************************************************************************)
Tokens == 1 .. MaxToken
FetchedUser == [tag |-> "user"]
FetchedProfile == [tag |-> "profile"]
Failure == [tag |-> "error"]

Protected == {"/discover", "/saved", "/resume-analyzer"}
Paths == Protected \cup {"/login", "/signup"}

\* The routes with AuthRoute rendering its children whatever the flag
Route_AuthRouteOpen(p, auth) ==
    IF p \in Protected
    THEN IF auth THEN p ELSE "/login"
    ELSE p

\* ProtectedRoute / AuthRoute: where the router ends up for a requested path.
Route(p, auth) ==
    IF p \in Protected
    THEN IF auth THEN p ELSE "/login"
    ELSE IF auth THEN "/discover" ELSE p

AuthCall(op, stage) == [op |-> op, stage |-> stage]
CanCallAuth == BagCardinality(authCalls) < MaxAuthCalls
AuthCalls == BagToSet(authCalls)

\* An async authStore function called from SignupWizard.handleSubmit; live:
\* the wizard instance that called it is still mounted.
WizardCall(op, stage, live) == [op |-> op, stage |-> stage, live |-> live]

\* SignupWizard's local isLoading: its handleSubmit has not reached `finally`.
wizardBusy == \E c \in AuthCalls : c.op \in {"register", "updateProfile"} /\ c.live

\* The router shows p: a wizard that is no longer rendered is unmounted.
Leave(calls, p) ==
    IF p = "/signup" THEN calls
    ELSE LET dead(c) == IF c.op \in {"register", "updateProfile"}
                        THEN [c EXCEPT !.live = FALSE] ELSE c
             was(d) == IF d.op \in {"register", "updateProfile"}
                       THEN CopiesIn([d EXCEPT !.live = TRUE], calls) ELSE 0
         IN [d \in {dead(c) : c \in BagToSet(calls)} |-> CopiesIn(d, calls) + was(d)]

\* What a settled login() run was called by, and the step of it that failed.
LoginOutcome(caller, failed) == [caller |-> caller, failed |-> failed]
UpdatedProfile == [tag |-> "profile", updated |-> TRUE]

\* persist + partialize: every set() writes the flag to localStorage.
Persist == persisted' = isAuthenticated'

\* SignupWizard's local state lives while the wizard is rendered.
WizardFrame == wizardError' = IF path' = "/signup" THEN wizardError ELSE Null

\* handleSubmit's catch in the wizard that made call c: setError(err.message)
WizardFailed(c) ==
    wizardError' = IF c.op = "register" /\ c.live THEN [message |-> "Registration failed"]
                   ELSE IF path' = "/signup" THEN wizardError ELSE Null

\* The session actions leave the other components alone.
AuthFrame == UNCHANGED <<jobsVars, skipRun, swipeVars, gateVars, analyzerVars>>

\* AppContent's effect, run on mount and whenever isAuthenticated changes:
\* the async calls in flight once it has run.
AppEffect(calls, ran, token, auth) ==
    IF ran /\ token # NoToken /\ ~auth
    THEN calls (+) SetToBag({AuthCall("fetchUser", "user")})
    ELSE calls

\* LoginPage.handleSubmit: clearError(), then login() up to its first await.
LoginSubmit ==
    /\ path = "/login"
    /\ ~authIsLoading
    /\ CanCallAuth
    /\ authIsLoading' = TRUE
    /\ authError' = Null
    /\ authCalls' = authCalls (+) SetToBag({AuthCall("login", "credentials")})
    /\ event' = Ev("login", Null, "called")
    /\ AuthFrame
    /\ UNCHANGED <<user, profile, isAuthenticated, path, tokenVars>>
    /\ Persist
    /\ WizardFrame

\* SignupWizard.handleSubmit: register() up to its first await.
SignupSubmit ==
    /\ path = "/signup"
    /\ ~wizardBusy
    /\ CanCallAuth
    /\ authIsLoading' = TRUE
    /\ authError' = Null
    /\ authCalls' = authCalls (+) SetToBag({WizardCall("register", "create", TRUE)})
    /\ event' = Ev("register", Null, "called")
    /\ AuthFrame
    /\ UNCHANGED <<user, profile, isAuthenticated, path, tokenVars>>
    /\ Persist
    /\ wizardError' = Null

\* handleSubmit going on to updateProfile() whatever register resolved
RegisterCreateFail_GoesOn(c) ==
    /\ c.op = "register" /\ c.stage = "create"
    /\ BagIn(c, authCalls)
    /\ authCalls' = (authCalls (-) SetToBag({c}))
                        (+) SetToBag({WizardCall("updateProfile", "patch", c.live)})
    /\ authError' = Failure
    /\ authIsLoading' = TRUE
    /\ event' = Ev("register", Null, "false")
    /\ AuthFrame
    /\ UNCHANGED <<user, profile, isAuthenticated, path, tokenVars>>
    /\ Persist
    /\ WizardFrame

\* POST /auth/register/ rejected: register's catch; handleSubmit throws and
\* shows its own error.
RegisterCreateFail(c) ==
    /\ c.op = "register" /\ c.stage = "create"
    /\ BagIn(c, authCalls)
    /\ authCalls' = authCalls (-) SetToBag({c})
    /\ authError' = Failure
    /\ authIsLoading' = FALSE
    /\ event' = Ev("register", Null, "false")
    /\ AuthFrame
    /\ UNCHANGED <<user, profile, isAuthenticated, path, tokenVars>>
    /\ Persist
    /\ WizardFailed(c)

\* POST /auth/register/ answered: register calls login(), which runs up to
\* its first await.
RegisterCreateOk(c) ==
    /\ c.op = "register" /\ c.stage = "create"
    /\ BagIn(c, authCalls)
    /\ authCalls' = (authCalls (-) SetToBag({c}))
                        (+) SetToBag({[c EXCEPT !.stage = "credentials"]})
    /\ authIsLoading' = TRUE
    /\ authError' = Null
    /\ event' = Ev("register", Null, "created")
    /\ AuthFrame
    /\ UNCHANGED <<user, profile, isAuthenticated, path, tokenVars>>
    /\ Persist
    /\ WizardFrame

\* POST /auth/login/ rejected: login's catch.  Run by register, register
\* resolves false as well.
LoginCredentialsFail(c) ==
    /\ c.op \in {"login", "register"} /\ c.stage = "credentials"
    /\ BagIn(c, authCalls)
    /\ authCalls' = authCalls (-) SetToBag({c})
    /\ authError' = Failure
    /\ authIsLoading' = FALSE
    /\ event' = Ev("login", LoginOutcome(c.op, "credentials"), "false")
    /\ AuthFrame
    /\ UNCHANGED <<user, profile, isAuthenticated, path, tokenVars>>
    /\ Persist
    /\ WizardFailed(c)

\* POST /auth/login/ answered: both credentials stored, fetchUser() called.
LoginCredentialsOk(c, tok) ==
    /\ c.op \in {"login", "register"} /\ c.stage = "credentials"
    /\ BagIn(c, authCalls)
    /\ authCalls' = (authCalls (-) SetToBag({c})) (+) SetToBag({[c EXCEPT !.stage = "user"]})
    /\ access_token' = tok
    /\ refresh_token' = tok
    /\ event' = Ev("login", Null, "stored")
    /\ AuthFrame
    /\ UNCHANGED <<user, profile, isAuthenticated, authIsLoading, authError, path>>
    /\ Persist
    /\ WizardFrame

\* fetchUser's catch clearing the flag only
fetchUser_KeepsUserOnFailure(ok) ==
    IF ok THEN <<FetchedUser, FetchedProfile, TRUE>> ELSE <<user, profile, FALSE>>

\* What fetchUser() sets once Promise.all has settled: <<user, profile, isAuthenticated>>.
fetchUser(ok) ==
    IF ok THEN <<FetchedUser, FetchedProfile, TRUE>> ELSE <<Null, Null, FALSE>>

\* login after `await get().fetchUser()`: the flag it sets, whatever fetchUser did.
loginAfterFetch(fetched) == TRUE

\* updateProfile up to its await, when handleSubmit calls it after register()
\* has resolved true; otherwise the store's isLoading is what login left.
thenUpdateProfile(c, loading) == IF c.op = "register" THEN TRUE ELSE loading

\* The fetchUser() awaited by login has settled (it never throws); login
\* sets the flag and returns true.  LoginPage.handleSubmit then navigates to
\* /discover; SignupWizard.handleSubmit calls updateProfile().
LoginUserSettled(c, ok) ==
    /\ c.op \in {"login", "register"} /\ c.stage = "user"
    /\ BagIn(c, authCalls)
    /\ user' = fetchUser(ok)[1]
    /\ profile' = fetchUser(ok)[2]
    /\ isAuthenticated' = loginAfterFetch(fetchUser(ok)[3])
    /\ authIsLoading' = thenUpdateProfile(c, FALSE)
    /\ path' = Route(IF c.op = "login" THEN "/discover" ELSE path, isAuthenticated')
    /\ authCalls' = Leave((authCalls (-) SetToBag({c})) (+)
                            (IF c.op = "register"
                             THEN SetToBag({WizardCall("updateProfile", "patch", c.live)})
                             ELSE EmptyBag),
                          path')
    /\ event' = Ev("login", LoginOutcome(c.op, IF ok THEN "nothing" ELSE "fetch"), "true")
    /\ AuthFrame
    /\ UNCHANGED <<authError, tokenVars>>
    /\ Persist
    /\ WizardFrame

\* PATCH /profile/ answered: the rest of updateProfile, then handleSubmit's
\* onComplete(): SignupPage.handleComplete navigates to /discover.
UpdateProfileOk(c) ==
    /\ c.op = "updateProfile"
    /\ BagIn(c, authCalls)
    /\ profile' = UpdatedProfile
    /\ authIsLoading' = FALSE
    /\ path' = Route("/discover", isAuthenticated)
    /\ authCalls' = Leave(authCalls (-) SetToBag({c}), path')
    /\ event' = Ev("updateProfile", Null, "true")
    /\ AuthFrame
    /\ UNCHANGED <<user, isAuthenticated, authError, tokenVars>>
    /\ Persist
    /\ WizardFrame

\* PATCH /profile/ failed: updateProfile's catch; handleSubmit does not look
\* at the result and goes on to onComplete().
UpdateProfileFail(c) ==
    /\ c.op = "updateProfile"
    /\ BagIn(c, authCalls)
    /\ authError' = Failure
    /\ authIsLoading' = FALSE
    /\ path' = Route("/discover", isAuthenticated)
    /\ authCalls' = Leave(authCalls (-) SetToBag({c}), path')
    /\ event' = Ev("updateProfile", Null, "false")
    /\ AuthFrame
    /\ UNCHANGED <<user, profile, isAuthenticated, tokenVars>>
    /\ Persist
    /\ WizardFrame

\* The fetchUser() started by AppContent has settled.
FetchUserSettled(c, ok) ==
    /\ c = AuthCall("fetchUser", "user")
    /\ BagIn(c, authCalls)
    /\ user' = fetchUser(ok)[1]
    /\ profile' = fetchUser(ok)[2]
    /\ isAuthenticated' = fetchUser(ok)[3]
    /\ path' = Route(path, isAuthenticated')
    /\ authCalls' = Leave(AppEffect(authCalls (-) SetToBag({c}),
                                    isAuthenticated' # isAuthenticated,
                                    access_token, isAuthenticated'),
                          path')
    /\ event' = Ev("fetchUser", Null, IF ok THEN "ok" ELSE "failed")
    /\ AuthFrame
    /\ UNCHANGED <<authIsLoading, authError, tokenVars>>
    /\ Persist
    /\ WizardFrame

\* logout leaving the refresh credential in localStorage
logout_KeepsRefreshToken ==
    /\ access_token' = NoToken
    /\ refresh_token' = refresh_token
    /\ user' = Null
    /\ profile' = Null
    /\ isAuthenticated' = FALSE
    /\ authError' = Null

\* authStore.logout()
logout ==
    /\ access_token' = NoToken
    /\ refresh_token' = NoToken
    /\ user' = Null
    /\ profile' = Null
    /\ isAuthenticated' = FALSE
    /\ authError' = Null

\* DiscoverPage.handleLogout: logout(), then navigate('/login').
HandleLogout ==
    /\ path = "/discover"
    /\ logout
    /\ authCalls' = AppEffect(authCalls, isAuthenticated' # isAuthenticated, access_token',
                              isAuthenticated')
    /\ path' = Route("/login", isAuthenticated')
    /\ event' = Ev("logout", Null, "none")
    /\ AuthFrame
    /\ UNCHANGED <<authIsLoading>>
    /\ Persist
    /\ WizardFrame

\* A link or the address bar takes the user to another route.
Navigate(p) ==
    /\ p # path
    /\ path' = Route(p, isAuthenticated)
    /\ path' # path
    /\ authCalls' = Leave(authCalls, path')
    /\ event' = Ev("navigate", Null, "none")
    /\ AuthFrame
    /\ UNCHANGED <<user, profile, isAuthenticated, authIsLoading, authError, persisted,
                   tokenVars>>
    /\ WizardFrame

\* The application is loaded (first visit or page reload) at path p: the store
\* is created afresh, persist restores the flag, AppContent's effect runs.
AppLoad(p) ==
    /\ user' = Null
    /\ profile' = Null
    /\ isAuthenticated' = persisted
    /\ authIsLoading' = FALSE
    /\ authError' = Null
    /\ authCalls' = AppEffect(EmptyBag, TRUE, access_token, isAuthenticated')
    /\ path' = Route(p, isAuthenticated')
    /\ event' = Ev("load", Null, "none")
    /\ AuthFrame
    /\ UNCHANGED <<persisted, tokenVars>>
    /\ wizardError' = Null

AuthNext ==
    \/ LoginSubmit
    \/ SignupSubmit
    \/ \E c \in AuthCalls : RegisterCreateFail(c)
    \/ \E c \in AuthCalls : RegisterCreateOk(c)
    \/ \E c \in AuthCalls : UpdateProfileOk(c)
    \/ \E c \in AuthCalls : UpdateProfileFail(c)
    \/ \E c \in AuthCalls : LoginCredentialsFail(c)
    \/ \E c \in AuthCalls, tok \in Tokens : LoginCredentialsOk(c, tok)
    \/ \E c \in AuthCalls, ok \in BOOLEAN : LoginUserSettled(c, ok)
    \/ \E c \in AuthCalls, ok \in BOOLEAN : FetchUserSettled(c, ok)
    \/ HandleLogout
    \/ \E p \in Paths : Navigate(p)
    \/ \E p \in Paths : AppLoad(p)

InitAuth ==
    /\ InitStore
    /\ InitSession
    /\ InitAnalyzer
    /\ event = Ev("load", Null, "none")
    /\ skipRun = 0
    /\ offset = [x |-> 0, y |-> 0]
    /\ swiped = <<>>

AuthSpec == InitAuth /\ [][AuthNext]_vars

(***************************************************************************)
(* The api client: request and response interceptors                       *)
(***************************************************************************)
ReqIds == 1 .. MaxReq

\* The gateway actions leave the stores alone.
GateFrame == UNCHANGED <<jobsVars, skipRun, swipeVars, authVars, analyzerVars, wizardVars>>

\* What went on the wire: through which axios instance, for which original
\* request, with which Authorization header, and what localStorage held.
Sent(via, r, hdr) == [via |-> via, req |-> r, hdr |-> hdr, stored |-> access_token']

\* The request interceptor not touching the headers
requestInterceptor_NoHeader(hdr, token) == hdr

\* api.interceptors.request: the Authorization header the request leaves with.
requestInterceptor(hdr, token) == IF token # NoToken THEN token ELSE hdr

\* The retry flag left as it was
markRetry_Forgotten(req) == req

\* originalRequest._retry = true
markRetry(req) == [req EXCEPT !.retry = TRUE]

\* login() has stored the credentials the server issued.
CredentialsStored(tok) ==
    /\ access_token' = tok
    /\ refresh_token' = tok
    /\ event' = Ev("setItem", tok, "none")
    /\ GateFrame
    /\ UNCHANGED gateVars

\* logout() has removed the credentials.
CredentialsRemoved ==
    /\ access_token # NoToken
    /\ access_token' = NoToken
    /\ refresh_token' = NoToken
    /\ event' = Ev("removeItem", NoToken, "none")
    /\ GateFrame
    /\ UNCHANGED gateVars

\* api.get / api.post / ...: an original request goes out.
ApiRequest(r) ==
    /\ requests[r].state = "new"
    /\ LET h == requestInterceptor(NoToken, access_token)
       IN /\ requests' = [requests EXCEPT ![r] = [@ EXCEPT !.state = "sent", !.hdr = h,
                                                            !.sends = 1]]
          /\ UNCHANGED <<tokenVars, forcedLogin>>
          /\ event' = Ev("send", Sent("api", r, h), "none")
    /\ GateFrame

\* An error of axios: the request it belongs to (error.config) and the status
\* of its response, 0 when there was none.
Err(r, status) == [req |-> r, status |-> status]

\* The refresh call is no original request of the api instance.
RefreshCall == 0

\* What the error handler rejects with after the refresh has failed: `catch`
\* binds no variable, `error` is still the error of the original request.
rejectedWith(original, refreshError) == original

\* The success handler keeping the response from the caller
ResponseOk_Dropped(r) ==
    /\ requests[r].state = "sent"
    /\ requests' = [requests EXCEPT ![r] = [@ EXCEPT !.got = 200]]
    /\ event' = Ev("response", Err(r, 200), "resolved")
    /\ GateFrame
    /\ UNCHANGED <<tokenVars, forcedLogin>>

\* A 2xx response: passed to the caller.
ResponseOk(r) ==
    /\ requests[r].state = "sent"
    /\ requests' = [requests EXCEPT ![r] = [@ EXCEPT !.state = "resolved", !.got = 200]]
    /\ event' = Ev("response", Err(r, 200), "resolved")
    /\ GateFrame
    /\ UNCHANGED <<tokenVars, forcedLogin>>

\* The refresh protocol entered on any error of a request not yet retried
shouldRefresh_AnyStatus(status, retry) == ~retry

\* error.response?.status === 401 && !originalRequest._retry
shouldRefresh(status, retry) == status = 401 /\ ~retry

\* The error handler refreshing only while no other refresh is out
ResponseError_OneRefreshAtATime(r, status) ==
    /\ requests[r].state = "sent"
    /\ IF shouldRefresh(status, requests[r].retry)
       THEN IF refresh_token # NoToken /\ \A q \in ReqIds : requests[q].state # "refreshing"
            THEN /\ requests' = [requests EXCEPT ![r] =
                        [markRetry(@) EXCEPT !.state = "refreshing",
                                             !.refreshes = @ + 1,
                                             !.got = status]]
                 /\ UNCHANGED <<tokenVars, forcedLogin>>
                 /\ event' = Ev("send", Sent("axios", r, NoToken), "none")
            ELSE /\ requests' = [requests EXCEPT ![r] =
                        [markRetry(@) EXCEPT !.state = "rejected", !.got = status]]
                 /\ UNCHANGED <<tokenVars, forcedLogin>>
                 /\ event' = Ev("response", Err(r, status), "rejected")
       ELSE /\ requests' = [requests EXCEPT ![r] = [@ EXCEPT !.state = "rejected",
                                                             !.got = status]]
            /\ UNCHANGED <<tokenVars, forcedLogin>>
            /\ event' = Ev("response", Err(r, status), "rejected")
    /\ GateFrame

\* An error response (or no response: status 0): the response interceptor's
\* error handler up to its await, or to its final Promise.reject.
ResponseError(r, status) ==
    /\ requests[r].state = "sent"
    /\ IF shouldRefresh(status, requests[r].retry)
       THEN IF refresh_token # NoToken
            THEN /\ requests' = [requests EXCEPT ![r] =
                        [markRetry(@) EXCEPT !.state = "refreshing",
                                             !.refreshes = @ + 1,
                                             !.got = status]]
                 /\ UNCHANGED <<tokenVars, forcedLogin>>
                 /\ event' = Ev("send", Sent("axios", r, NoToken), "none")
            ELSE /\ requests' = [requests EXCEPT ![r] =
                        [markRetry(@) EXCEPT !.state = "rejected", !.got = status]]
                 /\ UNCHANGED <<tokenVars, forcedLogin>>
                 /\ event' = Ev("response", Err(r, status), "rejected")
       ELSE /\ requests' = [requests EXCEPT ![r] = [@ EXCEPT !.state = "rejected",
                                                             !.got = status]]
            /\ UNCHANGED <<tokenVars, forcedLogin>>
            /\ event' = Ev("response", Err(r, status), "rejected")
    /\ GateFrame

\* The refresh answer used for the header only, not written to localStorage
RefreshOk_NotStored(r, tok) ==
    /\ requests[r].state = "refreshing"
    /\ access_token' = access_token
    /\ UNCHANGED <<refresh_token, forcedLogin>>
    /\ LET h == requestInterceptor(tok, access_token')
       IN /\ requests' = [requests EXCEPT ![r] = [@ EXCEPT !.state = "sent", !.hdr = h,
                                                            !.sends = @ + 1,
                                                            !.granted = tok]]
          /\ event' = Ev("send", Sent("api", r, h), "none")
    /\ GateFrame

\* POST /auth/refresh/ answered with access credential tok: the credential is
\* replaced and the original request is sent again through the api instance.
RefreshOk(r, tok) ==
    /\ requests[r].state = "refreshing"
    /\ access_token' = tok
    /\ UNCHANGED <<refresh_token, forcedLogin>>
    /\ LET h == requestInterceptor(tok, access_token')
       IN /\ requests' = [requests EXCEPT ![r] = [@ EXCEPT !.state = "sent", !.hdr = h,
                                                            !.sends = @ + 1,
                                                            !.granted = tok]]
          /\ event' = Ev("send", Sent("api", r, h), "none")
    /\ GateFrame

\* The refresh failure path leaving the refresh credential in localStorage
RefreshFail_KeepsRefreshToken(r, st) ==
    /\ requests[r].state = "refreshing"
    /\ access_token' = NoToken
    /\ refresh_token' = refresh_token
    /\ forcedLogin' = TRUE
    /\ requests' = [requests EXCEPT ![r].state = "rejected"]
    /\ event' = Ev("response", rejectedWith(Err(r, 401), Err(RefreshCall, st)), "rejected")
    /\ GateFrame

\* POST /auth/refresh/ failed with status st: the catch, then the final
\* Promise.reject.
RefreshFail(r, st) ==
    /\ requests[r].state = "refreshing"
    /\ access_token' = NoToken
    /\ refresh_token' = NoToken
    /\ forcedLogin' = TRUE
    /\ requests' = [requests EXCEPT ![r].state = "rejected"]
    /\ event' = Ev("response", rejectedWith(Err(r, 401), Err(RefreshCall, st)), "rejected")
    /\ GateFrame

ErrorStatuses == {401, 500, 0}

GateNext ==
    \/ \E tok \in Tokens : CredentialsStored(tok)
    \/ CredentialsRemoved
    \/ \E r \in ReqIds : ApiRequest(r)
    \/ \E r \in ReqIds : ResponseOk(r)
    \/ \E r \in ReqIds, st \in ErrorStatuses : ResponseError(r, st)
    \/ \E r \in ReqIds, tok \in Tokens : RefreshOk(r, tok)
    \/ \E r \in ReqIds, st \in ErrorStatuses : RefreshFail(r, st)

GateSpec == InitAuth /\ [][GateNext]_vars

\* The server (or the network layer, with an error) answers the call that is
\* out for request r: the request itself, or the refresh made for it.
Answer(r) ==
    \/ ResponseOk(r)
    \/ \E st \in ErrorStatuses : ResponseError(r, st)
    \/ \E tok \in Tokens : RefreshOk(r, tok)
    \/ \E st \in ErrorStatuses : RefreshFail(r, st)

\* The requests that are followed to their end.
LiveReqIds == 1 .. MaxLiveReq

GateLiveNext ==
    \/ \E tok \in Tokens : CredentialsStored(tok)
    \/ CredentialsRemoved
    \/ \E r \in LiveReqIds : ApiRequest(r)
    \/ \E r \in LiveReqIds : Answer(r)

\* The gateway where every call that is out is answered in the end.
GateLiveSpec ==
    InitAuth /\ [][GateLiveNext]_vars /\ \A r \in LiveReqIds : WF_vars(Answer(r))

(***************************************************************************)
(* The session served through the gateway: the Session Store, the          *)
(* requests the pages make, and the page load that follows the gateway's   *)
(* assignment to window.location.href                                      *)
(***************************************************************************)
\* The browser loads /login after the gateway has assigned the location: the
\* store is created afresh, persist restores the flag, AppContent's effect
\* runs, AuthRoute decides what is shown.
ForcedLoad ==
    /\ forcedLogin
    /\ forcedLogin' = FALSE
    /\ user' = Null
    /\ profile' = Null
    /\ isAuthenticated' = persisted
    /\ authIsLoading' = FALSE
    /\ authError' = Null
    /\ authCalls' = AppEffect(EmptyBag, TRUE, access_token, isAuthenticated')
    /\ path' = Route("/login", isAuthenticated')
    /\ event' = Ev("load", Null, "forced")
    /\ UNCHANGED <<jobsVars, skipRun, swipeVars, analyzerVars, requests, persisted, tokenVars>>
    /\ WizardFrame

SessionGateNext ==
    \/ AuthNext
    \/ \E r \in LiveReqIds : ApiRequest(r)
    \/ \E r \in LiveReqIds : Answer(r)
    \/ ForcedLoad

SessionGateSpec == InitAuth /\ [][SessionGateNext]_vars

(***************************************************************************)
(* ResumeAnalyzerPage: choosing the input and posting it for analysis      *)
(***************************************************************************)
MaxText == 1        \* longest text typed into the resume textarea

\* Strings the page inspects are sequences of one-character strings.
Chars == {" ", "\n", "a"}
WhiteSpace == {" ", "\n"}
Texts == SeqsUpTo(Chars, MaxText)

\* String.prototype.toLowerCase on the letters of the file names below
toLowerCase(str) ==
    [i \in 1 .. Len(str) |->
        CASE str[i] = "P" -> "p"
          [] str[i] = "D" -> "d"
          [] str[i] = "F" -> "f"
          [] OTHER -> str[i]]

\* String.prototype.lastIndexOf: 0-based, -1 when the character is absent
lastIndexOf(str, ch) ==
    LET at == {i \in 1 .. Len(str) : str[i] = ch}
    IN IF at = {} THEN -1 ELSE (CHOOSE i \in at : \A j \in at : j <= i) - 1

\* String.prototype.slice(start): a negative start counts from the end
slice(str, start) ==
    LET from == IF start < 0
                THEN (IF Len(str) + start < 0 THEN 0 ELSE Len(str) + start)
                ELSE (IF start > Len(str) THEN Len(str) ELSE start)
    IN SubSeq(str, from + 1, Len(str))

RECURSIVE trimStart(_)
trimStart(str) ==
    IF str # <<>> /\ Head(str) \in WhiteSpace THEN trimStart(Tail(str)) ELSE str

RECURSIVE trimEnd(_)
trimEnd(str) ==
    IF str # <<>> /\ str[Len(str)] \in WhiteSpace
    THEN trimEnd(SubSeq(str, 1, Len(str) - 1))
    ELSE str

\* String.prototype.trim
trim(str) == trimEnd(trimStart(str))

validTypes ==
    {"application/pdf",
     "application/vnd.openxmlformats-officedocument.wordprocessingml.document"}
validExtensions == {<<".", "p", "d", "f">>, <<".", "d", "o", "c", "x">>}
maxFileSize == 10 * 1024 * 1024

isValidFile(file) ==
    LET ext == slice(toLowerCase(file.name), lastIndexOf(file.name, "."))
    IN file.type \in validTypes \/ ext \in validExtensions

\* The files the user drops or picks.
FileTypes == validTypes \cup {"text/plain"}
FileNames ==
    {<<"a", ".", "p", "d", "f">>, <<"a", ".", "P", "D", "F">>,
     <<"a", ".", "d", "o", "c", "x">>, <<"a", ".", "p", "d", "f", ".", "t", "x", "t">>,
     <<"p", "d", "f">>}
FileSizes == {maxFileSize, maxFileSize + 1}
Files == [type : FileTypes, name : FileNames, size : FileSizes]

JobChoices == {"", "1"}

\* An error message shown by the page.
Message(text) == [message |-> text]

canAnalyze ==
    IF inputMode = "upload" THEN resumeFile # Null ELSE trim(resumeText) # <<>>

AnalyzerFrame ==
    UNCHANGED <<jobsVars, skipRun, swipeVars, authVars, tokenVars, gateVars, wizardVars>>

\* the mode toggle buttons
SetInputMode(mode) ==
    /\ inputMode' = mode
    /\ event' = Ev("setInputMode", Null, "none")
    /\ UNCHANGED <<resumeText, resumeFile, selectedJobId, isAnalyzing, analysis,
                   analyzerError, analyzeCall>>
    /\ AnalyzerFrame

\* the textarea's onChange
SetResumeText(text) ==
    /\ inputMode = "text"
    /\ resumeText' = text
    /\ event' = Ev("setResumeText", Null, "none")
    /\ UNCHANGED <<inputMode, resumeFile, selectedJobId, isAnalyzing, analysis,
                   analyzerError, analyzeCall>>
    /\ AnalyzerFrame

\* the job select's onChange
SetSelectedJobId(id) ==
    /\ selectedJobId' = id
    /\ event' = Ev("setSelectedJobId", Null, "none")
    /\ UNCHANGED <<inputMode, resumeText, resumeFile, isAnalyzing, analysis,
                   analyzerError, analyzeCall>>
    /\ AnalyzerFrame

\* handleFileSelect, from handleDrop or handleFileInput; the drop zone is
\* rendered in upload mode while no file is chosen.
handleFileSelect(file) ==
    /\ inputMode = "upload"
    /\ resumeFile = Null
    /\ IF file = Undefined
       THEN /\ event' = Ev("handleFileSelect", file, "none")
            /\ UNCHANGED <<resumeFile, analyzerError>>
       ELSE IF ~isValidFile(file)
       THEN /\ analyzerError' = Message("Please upload a PDF or DOCX file")
            /\ event' = Ev("handleFileSelect", file, "rejected")
            /\ UNCHANGED resumeFile
       ELSE IF file.size > maxFileSize
       THEN /\ analyzerError' = Message("File size must be less than 10MB")
            /\ event' = Ev("handleFileSelect", file, "rejected")
            /\ UNCHANGED resumeFile
       ELSE /\ resumeFile' = file
            /\ analyzerError' = Null
            /\ event' = Ev("handleFileSelect", file, "stored")
    /\ UNCHANGED <<inputMode, resumeText, selectedJobId, isAnalyzing, analysis,
                   analyzeCall>>
    /\ AnalyzerFrame

removeFile ==
    /\ inputMode = "upload"
    /\ resumeFile # Null
    /\ resumeFile' = Null
    /\ event' = Ev("removeFile", Null, "none")
    /\ UNCHANGED <<inputMode, resumeText, selectedJobId, isAnalyzing, analysis,
                   analyzerError, analyzeCall>>
    /\ AnalyzerFrame

\* parseInt on the option values of the job select
parseInt(str) == CASE str = "1" -> 1

\* The body analyzeResume posts: FormData for a file, JSON for text.
FormData(file, jobId) ==
    [resume_file |-> <<file>>, resume_text |-> <<>>,
     job_id |-> IF jobId # "" THEN <<jobId>> ELSE <<>>]
Payload(text, jobId) ==
    [resume_file |-> <<>>, resume_text |-> <<text>>,
     job_id |-> IF jobId # "" THEN <<parseInt(jobId)>> ELSE <<>>]

\* analyzeResume that posts whatever the page holds
analyzeResume_Unguarded ==
    /\ ~isAnalyzing
    /\ isAnalyzing' = TRUE
    /\ analyzerError' = Null
    /\ analysis' = Null
    /\ analyzeCall' = IF inputMode = "upload" /\ resumeFile # Null
                      THEN FormData(resumeFile, selectedJobId)
                      ELSE Payload(resumeText, selectedJobId)
    /\ event' = Ev("analyzeResume", Null, "sent")
    /\ UNCHANGED <<inputMode, resumeText, resumeFile, selectedJobId>>
    /\ AnalyzerFrame

\* analyzeResume up to its await; one analysis runs at a time.
analyzeResume ==
    /\ ~isAnalyzing
    /\ IF ~canAnalyze
       THEN /\ analyzerError' = IF inputMode = "upload"
                                THEN Message("Please upload your resume file")
                                ELSE Message("Please paste your resume text")
            /\ event' = Ev("analyzeResume", Null, "refused")
            /\ UNCHANGED <<isAnalyzing, analysis, analyzeCall>>
       ELSE /\ isAnalyzing' = TRUE
            /\ analyzerError' = Null
            /\ analysis' = Null
            /\ analyzeCall' = IF inputMode = "upload" /\ resumeFile # Null
                              THEN FormData(resumeFile, selectedJobId)
                              ELSE Payload(resumeText, selectedJobId)
            /\ event' = Ev("analyzeResume", Null, "sent")
    /\ UNCHANGED <<inputMode, resumeText, resumeFile, selectedJobId>>
    /\ AnalyzerFrame

\* analyzeResume after the await: the response, then finally
AnalyzeOk ==
    /\ analyzeCall # Null
    /\ analysis' = [data |-> "analysis"]
    /\ isAnalyzing' = FALSE
    /\ analyzeCall' = Null
    /\ event' = Ev("analyzeResume", Null, "analysed")
    /\ UNCHANGED <<inputMode, resumeText, resumeFile, selectedJobId, analyzerError>>
    /\ AnalyzerFrame

AnalyzeFail ==
    /\ analyzeCall # Null
    /\ analyzerError' = Message("Failed to analyze resume. Please try again.")
    /\ isAnalyzing' = FALSE
    /\ analyzeCall' = Null
    /\ event' = Ev("analyzeResume", Null, "failed")
    /\ UNCHANGED <<inputMode, resumeText, resumeFile, selectedJobId, analysis>>
    /\ AnalyzerFrame

AnalyzerNext ==
    \/ \E mode \in {"upload", "text"} : SetInputMode(mode)
    \/ \E text \in Texts : SetResumeText(text)
    \/ \E id \in JobChoices : SetSelectedJobId(id)
    \/ \E file \in Files \cup {Undefined} : handleFileSelect(file)
    \/ removeFile
    \/ analyzeResume
    \/ AnalyzeOk
    \/ AnalyzeFail

\* The analyzer page as mounted.
InitAnalyzerPage ==
    /\ InitStore
    /\ InitSession
    /\ InitAnalyzer
    /\ event = Ev("mount", Null, "none")
    /\ skipRun = 0
    /\ offset = [x |-> 0, y |-> 0]
    /\ swiped = <<>>

AnalyzerSpec == InitAnalyzerPage /\ [][AnalyzerNext]_vars

(***************************************************************************)
(* Properties                                                              *)
(***************************************************************************)

\* C1: in every reachable state of the Job Feed Store the cursor satisfies
\* 0 <= currentIndex <= jobs.length.
C1_CursorWithinFeed == 0 <= currentIndex /\ currentIndex <= Len(jobs)

\* C5 as stated: on every feed of length N, N included 0, the cursor is N-1
\* after N skipJob() calls from cursor 0, and skipping never leaves it at N.
C5_SkipEndsAtLastIndex_AnyLength ==
    /\ (skipRun = Len(jobs) => currentIndex = Len(jobs) - 1)
    /\ (skipRun > 0 => currentIndex < Len(jobs))

\* C5 amended: on every feed of length N >= 1 the cursor is N-1 after N
\* skipJob() calls from cursor 0 and no skipJob() call ever puts it at N (the
\* call made at the last index does not advance); on the empty feed skipJob()
\* leaves the cursor at 0.
C5_SkipEndsAtLastIndex ==
    /\ (Len(jobs) >= 1 /\ skipRun = Len(jobs) => currentIndex = Len(jobs) - 1)
    /\ (Len(jobs) >= 1 => currentIndex < Len(jobs))
    /\ (Len(jobs) >= 1 /\ skipRun > Len(jobs) => currentIndex = Len(jobs) - 1)
    /\ (Len(jobs) = 0 => currentIndex = 0)

\* N skipJob() calls have been made on a feed of N >= 2 jobs.
C5_Witness == Len(jobs) >= 2 /\ skipRun = Len(jobs) /\ event.op = "skipJob"

\* C6: getCurrentJob() returns the job at the cursor when the cursor is inside
\* the feed and null when the feed is empty or the cursor is at or past the
\* end; it returns a job exactly when hasMoreJobs() holds; and the call
\* changes nothing in the store.
C6_CurrentJobProjection ==
    /\ [](event.op = "getCurrentJob" =>
            /\ (currentIndex < Len(jobs) => event.ret = jobs[currentIndex + 1])
            /\ (Len(jobs) = 0 \/ currentIndex >= Len(jobs) => event.ret = Null)
            /\ (event.ret # Null <=> hasMoreJobs))
    /\ [][event'.op = "getCurrentJob" /\ event' # event => UNCHANGED jobsVars]_vars

\* getCurrentJob() has returned the second job of a feed.
C6_Witness == event.op = "getCurrentJob" /\ event.ret # Null /\ currentIndex = 1

\* C7: when fetchSavedJobs() succeeds, savedJobs is exactly the sub-sequence
\* of the server's list with status "saved" and appliedJobs the sub-sequence
\* with status "applied", in the server's order, whatever the collections
\* held before; entries of any other status are in neither.
C7_ServerPartition ==
    (event.op = "fetchSavedJobs" /\ event.ret = "ok") =>
        /\ savedJobs = SelectSeq(event.arg, LAMBDA e : e.status = "saved")
        /\ appliedJobs = SelectSeq(event.arg, LAMBDA e : e.status = "applied")
        /\ ([i \in 1 .. Len(event.arg) |-> event.arg[i].status] = <<"saved", "applied", "applied">>
              => Len(savedJobs) = 1 /\ Len(appliedJobs) = 2)

\* The server has answered with one saved, one other and one applied entry.
C7_Witness ==
    /\ event.op = "fetchSavedJobs" /\ event.ret = "ok"
    /\ Len(event.arg) = 3 /\ Len(savedJobs) = 1 /\ Len(appliedJobs) = 1

\* C8: on drag release with threshold 100: offset.x > 100 commits 'apply';
\* offset.x < -100 commits 'skip'; otherwise offset.y < -100 commits 'save';
\* otherwise nothing is committed.  At most one decision per release, and
\* the horizontal outcome wins over the upward one.
C8_ReleaseDecision ==
    event.op = "handleDragEnd" =>
        /\ (offset.x > 100 => swiped = <<"apply">>)
        /\ (offset.x < -100 => swiped = <<"skip">>)
        /\ (offset.x <= 100 /\ offset.x >= -100 /\ offset.y < -100 => swiped = <<"save">>)
        /\ (offset.x <= 100 /\ offset.x >= -100 /\ offset.y >= -100 => swiped = <<>>)
        /\ Len(swiped) <= 1

\* A drag past both the right and the upward threshold has been released.
C8_Witness ==
    /\ event.op = "handleDragEnd"
    /\ offset.x > 100 /\ offset.y < -100
    /\ swiped = <<"apply">>

\* C2: whenever login() resolves true, isAuthenticated is true and user is
\* not null at that moment, whatever the server answered during the login.
C2_LoginSuccessHasUser ==
    (event.op = "login" /\ event.ret = "true") => (isAuthenticated /\ user # Null)

\* C3: in every reachable state of the Session Store, a page reload included,
\* isAuthenticated implies a non-null user.
C3_AuthenticatedHasUser == isAuthenticated => user # Null

\* C4: for every original request, whatever the server answers, the response
\* interceptor issues at most one POST /auth/refresh/ and at most one replay.
C4_OneRefreshOneReplay ==
    \A r \in ReqIds : requests[r].refreshes <= 1 /\ requests[r].sends <= 2

\* A replayed request got 401 again and was rejected although a refresh
\* credential was still stored.
C4_Witness ==
    /\ event.op = "response" /\ event.ret = "rejected" /\ event.arg.status = 401
    /\ requests[event.arg.req].sends = 2
    /\ requests[event.arg.req].refreshes = 1
    /\ refresh_token # NoToken

C10_EveryRequestCarriesCredential ==
    (event.op = "send" /\ event.arg.stored # NoToken) => event.arg.hdr = event.arg.stored

\* C10 amended: every request sent through the api instance (ordinary calls
\* and the replayed request) while an access credential is stored carries the
\* credential that is in storage at send time; the credential-refresh
\* request is sent with bare axios and carries no Authorization header.
C10_ApiRequestsCarryCredential ==
    event.op = "send" =>
        /\ (event.arg.via = "api" /\ event.arg.stored # NoToken
              => event.arg.hdr = event.arg.stored)
        /\ (event.arg.via = "axios" => event.arg.hdr = NoToken)

\* A request has been replayed with the credential the refresh returned.
C10_Witness ==
    /\ event.op = "send" /\ event.arg.via = "api"
    /\ requests[event.arg.req].sends = 2
    /\ event.arg.stored # NoToken /\ event.arg.hdr = event.arg.stored

\* C11 as stated: whenever a not-yet-retried request has received 401 and is
\* not replayed (the refresh call failed, or there was no refresh credential
\* to try), both credentials are gone, navigation to /login was forced and the
\* caller is rejected with the original error.
C11_RefreshFailureForcesLogin_AnyCause ==
    [][\A r \in ReqIds :
          (/\ requests[r].state \in {"sent", "refreshing"}
           /\ requests[r].sends = 1
           /\ requests'[r].state = "rejected"
           /\ event'.arg.status = 401)
          => /\ access_token' = NoToken /\ refresh_token' = NoToken
             /\ forcedLogin'
             /\ event' = Ev("response", Err(r, 401), "rejected")]_vars

\* C11 amended: when the refresh call made for a 401 fails, both stored
\* credentials are removed, navigation to /login is forced and the caller is
\* rejected with the error of the original request, whatever the refresh
\* call failed with; when the 401 arrives with no refresh credential stored,
\* no refresh is tried and the caller is rejected with the original error
\* with storage and location left as they are.
C11_RefreshFailureForcesLogin ==
    [][\A r \in ReqIds :
          /\ (requests[r].state = "refreshing" /\ requests'[r].state = "rejected")
              => /\ access_token' = NoToken /\ refresh_token' = NoToken
                 /\ forcedLogin'
                 /\ event' = Ev("response", Err(r, 401), "rejected")
                 /\ requests'[r].sends = 1
          /\ (/\ requests[r].state = "sent" /\ ~requests[r].retry
               /\ refresh_token = NoToken
               /\ requests'[r] # requests[r]
               /\ event'.arg.status = 401)
              => /\ UNCHANGED <<access_token, refresh_token, forcedLogin>>
                 /\ requests'[r].state = "rejected"
                 /\ requests'[r].refreshes = 0 /\ requests'[r].sends = 1]_vars

\* The refresh call made for a request has failed and the caller was rejected.
C11_Witness ==
    /\ event.op = "response" /\ event.ret = "rejected" /\ event.arg.status = 401
    /\ requests[event.arg.req].state = "rejected"
    /\ requests[event.arg.req].refreshes = 1 /\ requests[event.arg.req].sends = 1
    /\ access_token = NoToken /\ refresh_token = NoToken /\ forcedLogin

\* C12: when the refresh call made for a not-yet-retried request's 401
\* succeeds, the stored access credential becomes the returned one, the
\* request is sent again in the same step, once, with the returned credential
\* as its Authorization header, and what the caller gets is the outcome of
\* that replay: resolved on a 2xx, otherwise rejected with the replay's error,
\* with no further refresh.
C12_RefreshSuccessReplays ==
    /\ [][\A r \in ReqIds :
            (requests[r].state = "refreshing" /\ requests'[r].state # "rejected"
             /\ requests'[r] # requests[r])
            => /\ requests[r].sends = 1 /\ requests[r].refreshes = 1
               /\ access_token' = requests'[r].granted
               /\ access_token' # NoToken
               /\ requests'[r].state = "sent"
               /\ requests'[r].sends = 2
               /\ requests'[r].hdr = requests'[r].granted
               /\ event' = Ev("send", Sent("api", r, requests'[r].granted), "none")]_vars
    /\ [][\A r \in ReqIds :
            (requests[r].sends = 2 /\ requests'[r] # requests[r])
            => /\ requests[r].state = "sent"
               /\ requests'[r] = [requests[r] EXCEPT
                       !.state = IF requests'[r].got = 200 THEN "resolved" ELSE "rejected",
                       !.got = requests'[r].got]
               /\ event'.arg.status = requests'[r].got
               /\ event'.op = "response" /\ event'.arg.req = r
               /\ event'.ret = requests'[r].state
               /\ UNCHANGED <<access_token, refresh_token, forcedLogin>>]_vars
    /\ [](\A r \in ReqIds :
            requests[r].state = "resolved" =>
                requests[r].sends = requests[r].refreshes + 1)

\* The caller of a request that was replayed with the refreshed credential
\* has received the replay's 2xx response.
C12_Witness ==
    /\ event.op = "response" /\ event.ret = "resolved"
    /\ requests[event.arg.req].sends = 2
    /\ requests[event.arg.req].hdr = requests[event.arg.req].granted
    /\ requests[event.arg.req].hdr = access_token

\* C13: an error that is not a 401 on a not-yet-retried request (another
\* status, no response at all, or a 401 on a request already retried) is
\* rejected to the caller as it came in: no refresh call, no replay, the
\* retry flag, the stored credentials and the location all unchanged.
C13_OtherErrorsPassThrough ==
    [][\A r \in ReqIds :
          (/\ requests[r].state = "sent"
           /\ requests'[r] # requests[r]
           /\ requests'[r].got # 200
           /\ (requests'[r].got # 401 \/ requests[r].retry))
          => /\ requests'[r] = [requests[r] EXCEPT !.state = "rejected",
                                                   !.got = requests'[r].got]
             /\ event' = Ev("response", Err(r, requests'[r].got), "rejected")
             /\ UNCHANGED <<access_token, refresh_token, forcedLogin>>]_vars

\* A first attempt was rejected with a server error although both
\* credentials were stored.
C13_Witness ==
    /\ event.op = "response" /\ event.ret = "rejected" /\ event.arg.status = 500
    /\ requests[event.arg.req].sends = 1 /\ requests[event.arg.req].refreshes = 0
    /\ ~requests[event.arg.req].retry
    /\ access_token # NoToken /\ refresh_token # NoToken /\ ~forcedLogin

\* C14: when a fetchRecommended() call settles, savedJobs and appliedJobs are
\* as they were; on success jobs is the server's list and the cursor is 0; on
\* failure jobs and currentIndex are as they were and error is not null.
C14_FetchRecommendedOutcome ==
    [][CopiesIn(Call("recommended", Null, FALSE), inflight')
          < CopiesIn(Call("recommended", Null, FALSE), inflight)
       => /\ savedJobs' = savedJobs /\ appliedJobs' = appliedJobs
          /\ event'.op = "fetchRecommended"
          /\ event'.ret \in {"ok", "failed"}
          /\ (event'.ret = "ok" => jobs' = event'.arg /\ currentIndex' = 0)
          /\ (event'.ret = "failed" =>
                jobs' = jobs /\ currentIndex' = currentIndex /\ jobsError' # Null)]_vars

\* A refetch has failed while the store held a feed of two jobs with the
\* cursor on the second one.
C14_Witness ==
    /\ event.op = "fetchRecommended" /\ event.ret = "failed"
    /\ Len(jobs) = 2 /\ currentIndex = 1
    /\ jobsError # Null

\* C15 as stated: the cursor decreases only when a successful
\* fetchRecommended() puts it at 0, and every skip, save or apply decision
\* taken on a current job moves it up by exactly 1.
C15_CursorAdvancesByOne_EveryDecision ==
    [][/\ (currentIndex' < currentIndex =>
              event'.op = "fetchRecommended" /\ event'.ret = "ok" /\ currentIndex' = 0)
       /\ (event'.op = "skipJob" /\ event' # event => currentIndex' = currentIndex + 1)
       /\ (event'.op \in {"saveJob", "applyToJob"} /\ inflight' # inflight
              /\ event'.ret # "called"
            => currentIndex' = currentIndex + 1)]_vars

\* C15 amended: the cursor decreases only when a successful
\* fetchRecommended() puts it at 0 and never moves up by more than 1 in one
\* step; a skip taken on a current job moves it up by exactly 1, except on
\* the last job of the feed, where it stays; a save or an apply moves it up
\* by exactly 1 at the moment its server call succeeds and not at all when
\* the call fails.
C15_CursorAdvancesByOne ==
    [][/\ (currentIndex' < currentIndex =>
              event'.op = "fetchRecommended" /\ event'.ret = "ok" /\ currentIndex' = 0)
       /\ currentIndex' <= currentIndex + 1
       /\ (event'.op = "skipJob" /\ event' # event =>
              currentIndex' = IF currentIndex = Len(jobs) - 1 THEN currentIndex
                              ELSE currentIndex + 1)
       /\ (event'.op \in {"saveJob", "applyToJob"} /\ inflight' # inflight
              /\ event'.ret # "called"
            => currentIndex' = IF event'.arg.ok THEN currentIndex + 1 ELSE currentIndex)]_vars

\* The last job of a two-job feed has been skipped and is still the current one.
C15_Witness ==
    /\ event.op = "skipJob"
    /\ Len(jobs) = 2 /\ currentIndex = 1
    /\ event.arg = jobs[2]

\* C16: savedJobs / appliedJobs grow by the job, and the cursor moves up by
\* 1, in the continuation of saveJob(job) / applyToJob(job) that runs when
\* the POST for that job (status 'saved' / 'applied') has succeeded, and
\* nowhere else: the call itself changes none of the three, and when the POST
\* fails they are all unchanged; applyToJob resolves true on success and
\* false on failure, saveJob resolves undefined either way and sets no error.
C16_AppendAfterPersist ==
    [][/\ (event'.op \in {"saveJob", "applyToJob"} /\ inflight' # inflight
             /\ event'.ret = "called")
          => /\ UNCHANGED <<savedJobs, appliedJobs, currentIndex>>
             /\ inflight' = Send(Call(IF event'.op = "saveJob" THEN "save" ELSE "apply",
                                       event'.arg, event'.op = "applyToJob"))
       /\ (event'.op = "saveJob" /\ inflight' # inflight /\ event'.ret # "called")
          => /\ BagIn(Call("save", event'.arg.job, FALSE), inflight)
             /\ event'.ret = "undefined"
             /\ jobsError' = jobsError
             /\ appliedJobs' = appliedJobs
             /\ IF event'.arg.ok
                THEN /\ savedJobs' = Append(savedJobs, event'.arg.job)
                     /\ currentIndex' = currentIndex + 1
                ELSE UNCHANGED <<savedJobs, currentIndex>>
       /\ (event'.op = "applyToJob" /\ inflight' # inflight /\ event'.ret # "called")
          => /\ \E ui \in BOOLEAN : BagIn(Call("apply", event'.arg.job, ui), inflight)
             /\ event'.ret = (IF event'.arg.ok THEN "true" ELSE "false")
             /\ jobsError' = jobsError
             /\ savedJobs' = savedJobs
             /\ IF event'.arg.ok
                THEN /\ appliedJobs' = Append(appliedJobs, event'.arg.job)
                     /\ currentIndex' = currentIndex + 1
                ELSE UNCHANGED <<appliedJobs, currentIndex>>
       /\ (savedJobs' # savedJobs \/ appliedJobs' # appliedJobs)
          => \/ event'.op = "fetchSavedJobs" /\ event'.ret = "ok"
             \/ event'.op \in {"saveJob", "applyToJob"} /\ event'.ret # "called"
                  /\ event'.arg.ok]_vars

\* A save has failed after an earlier save and an earlier apply went through:
\* the collections and the cursor are where the two successes left them.
C16_Witness ==
    /\ event.op = "saveJob" /\ event.ret = "undefined" /\ ~event.arg.ok
    /\ Len(savedJobs) = 1 /\ Len(appliedJobs) = 1
    /\ currentIndex = 2 /\ Len(jobs) = 2

\* C17: whenever a login() run settles after one of its steps failed (the
\* credential call, or the user/profile fetch), it resolves false with error
\* not null and isLoading false, and it has not turned isAuthenticated on;
\* when it was the credential call that failed, both stored credentials are
\* as they were.
C17_LoginFailureResolvesFalse ==
    [][(/\ event'.op = "login" /\ event'.ret \in {"true", "false"}
        /\ authCalls' # authCalls
        /\ event'.arg.failed # "nothing")
       => /\ event'.ret = "false"
          /\ authError' # Null
          /\ ~authIsLoading'
          /\ (isAuthenticated' => isAuthenticated)
          /\ (event'.arg.failed = "credentials"
                => UNCHANGED <<access_token, refresh_token>>)]_vars

\* C18: while a login, register, fetchUser or updateProfile call is in
\* flight isLoading is true, however many of them overlap, and when one of
\* them settles after a failure error is not null.
C18_BusyUntilResolved ==
    /\ [](authCalls # EmptyBag => authIsLoading)
    /\ [][(/\ event' # event
            /\ \/ event'.ret \in {"false", "failed"}
               \/ event'.op = "login" /\ event'.ret = "true"
                    /\ event'.arg.failed = "fetch")
           => authError' # Null]_vars

\* C19: register() calls login() in the step in which the create succeeds and
\* in no other; that step leaves isAuthenticated and the stored credentials as
\* they are; a failed create ends register with false and error set, with no
\* login call; and when a step of the login run by register fails, register
\* resolves false.
C19_RegisterThenLogin ==
    [][/\ (LET logins(b) == CopiesIn(WizardCall("register", "credentials", TRUE), b)
                                + CopiesIn(WizardCall("register", "credentials", FALSE), b)
            IN logins(authCalls') > logins(authCalls))
            => /\ \E live \in BOOLEAN :
                     BagIn(WizardCall("register", "create", live), authCalls)
               /\ event' = Ev("register", Null, "created")
       /\ (event'.op = "register" /\ event'.ret = "created" /\ event' # event)
            => UNCHANGED <<isAuthenticated, access_token, refresh_token>>
       /\ (event'.op = "register" /\ event'.ret = "false" /\ event' # event)
            => /\ authError' # Null
               /\ UNCHANGED <<isAuthenticated, access_token, refresh_token>>
               /\ \E live \in BOOLEAN :
                     authCalls' = authCalls (-) SetToBag({WizardCall("register", "create", live)})
       /\ (/\ event'.op = "login" /\ event'.ret \in {"true", "false"}
            /\ authCalls' # authCalls
            /\ event'.arg.caller = "register" /\ event'.arg.failed # "nothing")
            => event'.ret = "false"]_vars

\* C20: when the fetchUser() started at application level settles, a success
\* leaves user and profile the fetched records and isAuthenticated true, a
\* failure leaves user = null, profile = null and isAuthenticated = false;
\* inside login() a failed fetch does not reach login's catch; and a second
\* fetchUser() settling right after a first with the same outcome (one
\* started at application level, or the one inside login()) leaves the store
\* as the first left it.
C20_FetchUserOutcome ==
    [][/\ (event'.op = "fetchUser" /\ vars' # vars)
            => /\ (event'.ret = "ok" =>
                     user' = FetchedUser /\ profile' = FetchedProfile /\ isAuthenticated')
               /\ (event'.ret = "failed" =>
                     user' = Null /\ profile' = Null /\ ~isAuthenticated')
               /\ event'.ret \in {"ok", "failed"}
               /\ UNCHANGED <<authIsLoading, authError>>
       /\ (event'.op = "fetchUser" /\ event.op = "fetchUser" /\ event'.ret = event.ret)
            => UNCHANGED <<user, profile, isAuthenticated, authIsLoading, authError,
                           persisted, access_token, refresh_token>>
       /\ (/\ event.op = "fetchUser" /\ event.ret = "ok"
            /\ event'.op = "login" /\ event'.ret = "true"
            /\ event'.arg.failed = "nothing")
            => UNCHANGED <<user, profile, isAuthenticated, persisted>>
       /\ (/\ event'.op = "login" /\ event'.ret \in {"true", "false"}
            /\ authCalls' # authCalls
            /\ event'.arg.failed = "fetch")
            => /\ event'.ret = "true" /\ authError' = authError
               /\ user' = Null /\ profile' = Null]_vars

\* A failed fetchUser() has ended a session that was authenticated, and the
\* application has called fetchUser() again.
C20_Witness ==
    /\ event.op = "fetchUser" /\ event.ret = "failed"
    /\ user = Null /\ profile = Null /\ ~isAuthenticated
    /\ BagIn(AuthCall("fetchUser", "user"), authCalls)

\* C21: whenever the application is loaded with an access credential in
\* storage, fetchUser() is called, whatever the persisted flag says; of the
\* Session Store only isAuthenticated comes back from storage.
C21_StartRefetchesUser ==
    [][(event'.op = "load" /\ vars' # vars)
       => /\ isAuthenticated' = persisted
          /\ user' = Null /\ profile' = Null
          /\ ~authIsLoading' /\ authError' = Null
          /\ (access_token # NoToken => BagIn(AuthCall("fetchUser", "user"), authCalls'))]_vars

\* C22: provided every call is answered, every request that was sent ends
\* resolved or rejected to its caller, having been sent at most twice with at
\* most one refresh call made for it, and once settled it stays settled: no
\* 401-refresh-replay loop, with an invalid or a missing refresh credential
\* as with a valid one.
C22_RequestsSettle ==
    /\ \A r \in LiveReqIds :
          (requests[r].state \in {"sent", "refreshing"})
             ~> (requests[r].state \in {"resolved", "rejected"})
    /\ [](\A r \in LiveReqIds : requests[r].sends <= 2 /\ requests[r].refreshes <= 1
                                  /\ requests[r].refreshes <= requests[r].sends)
    /\ [][\A r \in LiveReqIds : requests[r].state \in {"resolved", "rejected"}
                                  => requests'[r] = requests[r]]_vars

\* A request has settled after its replay was answered 401 again, with the
\* refresh credential that was used still in storage.
C22_Witness ==
    /\ \A r \in LiveReqIds : requests[r].state \in {"resolved", "rejected"}
    /\ \E r \in LiveReqIds :
          /\ requests[r].sends = 2 /\ requests[r].refreshes = 1
          /\ requests[r].got = 401 /\ requests[r].state = "rejected"
    /\ refresh_token # NoToken /\ ~forcedLogin

\* C23: a 401 on a not-yet-retried request, with a refresh credential
\* stored, starts a refresh call for that request whether or not refresh
\* calls for other requests are out, and touches no other request; so k
\* requests answered 401 make k refresh calls, each request still having at
\* most one refresh and one replay.
C23_RefreshPerRequest ==
    /\ [][\A r \in ReqIds :
            (/\ requests[r].state = "sent" /\ ~requests[r].retry
             /\ refresh_token # NoToken
             /\ requests'[r] # requests[r]
             /\ requests'[r].got = 401)
            => /\ requests'[r].state = "refreshing"
               /\ requests'[r].refreshes = 1 /\ requests'[r].sends = 1
               /\ event' = Ev("send", Sent("axios", r, NoToken), "none")
               /\ \A q \in ReqIds \ {r} : requests'[q] = requests[q]]_vars
    /\ [](\A r \in ReqIds :
            /\ requests[r].refreshes <= 1
            /\ requests[r].sends <= 1 + requests[r].refreshes
            /\ (requests[r].state = "refreshing" => requests[r].refreshes = 1))

\* The refresh calls of all the requests are out at the same time.
C23_Witness ==
    /\ \A r \in ReqIds : requests[r].state = "refreshing" /\ requests[r].refreshes = 1
    /\ refresh_token # NoToken

\* C24: the resume analyzer posts nothing for an invalid input. A file whose
\* MIME type and whose extension are both outside PDF/DOCX, or whose size is
\* over 10 MB, is rejected with an error and is never held as resumeFile;
\* analyzeResume sends no request when no file is chosen in upload mode or
\* when the text is empty or all whitespace in text mode; and the body of a
\* request that is out is a file that passes both tests or a text with a
\* character that is not whitespace.
EndsWith(str, suffix) ==
    /\ Len(str) >= Len(suffix)
    /\ SubSeq(str, Len(str) - Len(suffix) + 1, Len(str)) = suffix

BadFile(file) ==
    \/ /\ file.type \notin {"application/pdf",
                            "application/vnd.openxmlformats-officedocument.wordprocessingml.document"}
       /\ ~EndsWith(toLowerCase(file.name), <<".", "p", "d", "f">>)
       /\ ~EndsWith(toLowerCase(file.name), <<".", "d", "o", "c", "x">>)
    \/ file.size > 10485760

Blank(text) == \A i \in 1 .. Len(text) : text[i] \in WhiteSpace

C24_NoCallWithInvalidInput ==
    /\ [](resumeFile # Null => ~BadFile(resumeFile))
    /\ [](analyzeCall # Null =>
            \/ /\ Len(analyzeCall.resume_file) = 1
               /\ ~BadFile(analyzeCall.resume_file[1])
            \/ /\ Len(analyzeCall.resume_text) = 1
               /\ ~Blank(analyzeCall.resume_text[1]))
    /\ [][(event'.op = "handleFileSelect" /\ event'.arg # Undefined /\ BadFile(event'.arg))
          => /\ event'.ret = "rejected"
             /\ resumeFile' = resumeFile
             /\ analyzerError' \in {Message("Please upload a PDF or DOCX file"),
                                    Message("File size must be less than 10MB")}
             /\ analyzeCall' = analyzeCall]_vars
    /\ [][(/\ event'.op = "analyzeResume"
           /\ ~isAnalyzing
           /\ \/ inputMode = "upload" /\ resumeFile = Null
              \/ inputMode = "text" /\ Blank(resumeText))
          => /\ event'.ret = "refused"
             /\ analyzeCall' = Null
             /\ ~isAnalyzing'
             /\ analyzerError' # Null]_vars

\* analyzeResume has refused an all-whitespace text while a file chosen earlier
\* is still held.
C24_Witness ==
    /\ event = Ev("analyzeResume", Null, "refused")
    /\ inputMode = "text"
    /\ resumeText # <<>>
    /\ resumeFile # Null
    /\ analyzeCall = Null


\* C25: once the gateway has cleared both credentials on a failed refresh and
\* sent the browser to /login, the application comes up on the login page as
\* an anonymous session: after that load isAuthenticated is false and
\* AuthRoute shows /login instead of redirecting to /discover.
C25_ForcedLoginIsAnonymous ==
    [][(event'.op = "load" /\ event'.ret = "forced" /\ forcedLogin)
       => /\ ~isAuthenticated'
          /\ path' = "/login"
          /\ access_token' = NoToken
          /\ refresh_token' = NoToken]_vars


\* C26: a save or apply decision taken on a job while a save or apply call for
\* that same job is still awaiting its answer sends no second POST
\* /saved-jobs/ for it, so the job is persisted and appended at most once.
C26_PersistedAtMostOnce ==
    [][(/\ event'.op \in {"saveJob", "applyToJob"}
        /\ event'.ret = "called"
        /\ inflight' # inflight)
       => \A c \in BagToSet(inflight) :
            c.call \in {"save", "apply"} => c.job # event'.arg]_vars

\* C27: whenever the continuation of saveJob(job) or applyToJob(job) advances
\* the cursor, the job under the cursor just before the advance is that job.
C27_AdvancePassesTheDecidedJob ==
    [][(/\ event'.op \in {"saveJob", "applyToJob"}
        /\ event'.ret # "called"
        /\ currentIndex' # currentIndex)
       => ArrayGet(jobs, currentIndex) = event'.arg.job]_vars


\* C28: an 'apply' decision changes no Job Feed Store state and sends no
\* request, it selects the current job and opens the apply modal; a POST with
\* status 'applied' is sent only by 'Apply Now' in the shown modal, for the
\* job selected by the decision (selectedJob is set by nothing else);
\* dismissing the modal leaves the cursor, savedJobs, appliedJobs and the
\* calls in flight unchanged.
C28_ApplyDecisionOnlySelects ==
    [][/\ (event'.op = "handleSwipe" =>
              /\ UNCHANGED <<jobs, currentIndex, savedJobs, appliedJobs, jobsIsLoading,
                             jobsError, inflight, issued>>
              /\ selectedJob' = ArrayGet(jobs, currentIndex)
              /\ Truthy(selectedJob')
              /\ showApplyModal')
       /\ (selectedJob' # selectedJob =>
              event'.op = "handleSwipe" \/ selectedJob' = Null)
       /\ (\A c \in BagToSet(inflight') :
              (c.call = "apply" /\ c.ui /\ CopiesIn(c, inflight') > CopiesIn(c, inflight))
              => /\ event' = Ev("applyToJob", selectedJob, "called")
                 /\ page = "discover" /\ showApplyModal
                 /\ c.job = selectedJob
                 /\ UNCHANGED <<showApplyModal, selectedJob>>)
       /\ (event'.op = "onClose" =>
              /\ UNCHANGED <<jobs, currentIndex, savedJobs, appliedJobs, inflight, selectedJob>>
              /\ ~showApplyModal')]_vars

\* 'Apply Now' has just been clicked: the POST for the selected job is out,
\* the modal is still shown and nothing has been appended.
C28_Witness ==
    /\ event = Ev("applyToJob", selectedJob, "called")
    /\ showApplyModal
    /\ BagIn(Call("apply", selectedJob, TRUE), inflight)
    /\ selectedJob = ArrayGet(jobs, currentIndex)
    /\ appliedJobs = <<>>


\* C29: a protected page (/discover, /saved, /resume-analyzer) is shown only
\* while isAuthenticated is true, and the login and signup pages are shown
\* only while it is false.
C29_RouteGuards ==
    /\ (path \in {"/discover", "/saved", "/resume-analyzer"} => isAuthenticated)
    /\ (path \in {"/login", "/signup"} => ~isAuthenticated)

\* A profile fetch started at the login page has marked the session
\* authenticated, and the guard has replaced the login page by /discover.
C29_Witness ==
    /\ event = Ev("fetchUser", Null, "ok")
    /\ isAuthenticated
    /\ path = "/discover"


\* C30: when the register() awaited by the signup wizard's handleSubmit
\* resolves false (the create was rejected, or the login run by register was
\* rejected), that step starts no updateProfile() call and does not navigate
\* (onComplete is not invoked), and the wizard that submitted, if it is still
\* rendered, shows 'Registration failed'; an updateProfile() call is started
\* only in the step in which the wizard's register() resolves true.
C30_FailedRegisterStopsTheWizard ==
    [][LET patches(b) == CopiesIn(WizardCall("updateProfile", "patch", TRUE), b)
                           + CopiesIn(WizardCall("updateProfile", "patch", FALSE), b)
           submitting(b) == CopiesIn(WizardCall("register", "create", TRUE), b)
                              + CopiesIn(WizardCall("register", "credentials", TRUE), b)
           resolvedFalse ==
               /\ authCalls' # authCalls
               /\ \/ event'.op = "register" /\ event'.ret = "false"
                  \/ /\ event'.op = "login" /\ event'.ret = "false"
                     /\ event'.arg.caller = "register"
       IN /\ resolvedFalse =>
              /\ patches(authCalls') = patches(authCalls)
              /\ path' = path
              /\ (submitting(authCalls') < submitting(authCalls) =>
                     /\ wizardError' = [message |-> "Registration failed"]
                     /\ path' = "/signup"
                     /\ ~wizardBusy')
          /\ patches(authCalls') > patches(authCalls) =>
              /\ event'.op = "login" /\ event'.ret = "true"
              /\ event'.arg.caller = "register"]_vars

\* The account was created, the login run by register was rejected, and the
\* wizard shows its error with no updateProfile() call made.
C30_Witness ==
    /\ event = Ev("login", LoginOutcome("register", "credentials"), "false")
    /\ wizardError = [message |-> "Registration failed"]
    /\ path = "/signup"
    /\ authCalls = EmptyBag

====
